---- MODULE Spec2Model ----
(***************************************************************************)
(* State and proof read API of the node (api/src/state.rs, api/src/basic.rs *)
(* and the wire types of api/types) over a versioned, append-only ledger   *)
(* store.  One request is in flight at a time; every storage read of a     *)
(* handler is one step, and the ledger keeps committing blocks and pruning *)
(* history between the steps.                                              *)
(***************************************************************************)
EXTENDS Integers, Sequences, FiniteSets, TLC

VARIABLES
    log,        \* the committed blocks after genesis, oldest first
    oldest,     \* oldest retained ledger version (pruning window start)
    pc,         \* position of the request in its handler
    req,        \* the inputs of the request in flight
    loc,        \* the handler's local variables
    out,        \* the response of the request
    reads,      \* the storage reads the request has issued, in order
    window      \* the ledger's latest and oldest version at the moment the
                \* request resolved its snapshot

vars == <<log, oldest, pc, req, loc, out, reads, window>>

(***************************************************************************)
(* Bounds                                                                  *)
(***************************************************************************)
MaxHeight == 3

None == 0 - 1
NoBytes == <<-1>>

(***************************************************************************)
(* The ledger store.  Genesis is version 0; block h >= 1 holds the two     *)
(* versions 2h-1 (its transaction) and 2h (its checkpoint).  A block is    *)
(* either a transaction that writes the watched state keys of account 0xA  *)
(* or a reconfiguration that ends the epoch.                               *)
(***************************************************************************)
Addresses == {"0xA", "0xB"}

ResourceKey(address, tag) == [kind |-> "resource", address |-> address, name |-> tag]
ModuleKey(address, name) == [kind |-> "module", address |-> address, name |-> name]
TableItemKey(handle, raw_key) == [kind |-> "table_item", address |-> handle, name |-> raw_key]

AccountTag == "0x1::account::Account"
AccountKey(address) == ResourceKey(address, AccountTag)

WrittenKeys == {AccountKey("0xA"), ModuleKey("0xA", "coin"), TableItemKey("0xA", <<7>>)}

BlockKinds == {"write", "reconfig"}

KindCode(key) ==
    IF key.kind = "resource" THEN 1 ELSE IF key.kind = "module" THEN 2 ELSE 3

\* The bytes block h writes to key: one length byte and a body.  Blocks of
\* even height write bytes whose length byte disagrees with the body.
BytesOf(h, key) == <<1 + ((h + 1) % 2), 10 * h + KindCode(key)>>

LastVersionOf(h) == 2 * h
WriteVersionOf(h) == 2 * h - 1
Height == Len(log)
Latest == LastVersionOf(Height)

\* Heights of the blocks that wrote key at or before version.
WritersOf(l, key, version) ==
    {h \in 1..Len(l) : l[h] = "write" /\ key \in WrittenKeys /\ WriteVersionOf(h) <= version}

Max(S) == CHOOSE x \in S : \A y \in S : y <= x

\* get(key, version): the most recent write at or before version, if any.
ValueAt(l, key, version) ==
    IF WritersOf(l, key, version) = {} THEN NoBytes
    ELSE BytesOf(Max(WritersOf(l, key, version)), key)

\* Epochs: genesis ends epoch 0, every reconfiguration block ends its epoch.
EndsEpoch(l, h) == h = 0 \/ (h \in 1..Len(l) /\ l[h] = "reconfig")
EpochOfBlock(l, h) == Cardinality({g \in 0..(h - 1) : EndsEpoch(l, g)})

ValidatorsOf(epoch) == <<"validators", epoch>>
EpochStateOf(epoch) == [epoch |-> epoch, verifier |-> ValidatorsOf(epoch)]
NoEpochState == [epoch |-> None, verifier |-> <<"validators", None>>]

\* The signed ledger checkpoint committed with block h.
SignedLedgerInfoAt(l, h) ==
    [version |-> LastVersionOf(h),
     epoch |-> EpochOfBlock(l, h),
     timestamp_usecs |-> h,
     block_height |-> h,
     next_epoch_state |->
         IF EndsEpoch(l, h) THEN EpochStateOf(EpochOfBlock(l, h) + 1) ELSE NoEpochState,
     signers |-> ValidatorsOf(EpochOfBlock(l, h))]

NoSignedLedgerInfo ==
    [version |-> None, epoch |-> None, timestamp_usecs |-> None, block_height |-> None,
     next_epoch_state |-> NoEpochState, signers |-> <<"validators", None>>]

get_latest_ledger_info_with_signatures == SignedLedgerInfoAt(log, Height)

get_latest_epoch_state ==
    IF EndsEpoch(log, Height)
    THEN SignedLedgerInfoAt(log, Height).next_epoch_state
    ELSE EpochStateOf(EpochOfBlock(log, Height))

BlockHeightOf(version) == (version + 1) \div 2

(***************************************************************************)
(* Ledger snapshot and version resolution                                  *)
(***************************************************************************)
\* LedgerInfo::new: the snapshot attached to responses.
LedgerInfo_new(info, oldest_ledger_version, oldest_block_height, block_height) ==
    [epoch |-> info.epoch,
     ledger_version |-> info.version,
     oldest_ledger_version |-> oldest_ledger_version,
     block_height |-> block_height,
     oldest_block_height |-> oldest_block_height,
     ledger_timestamp |-> info.timestamp_usecs]

NoLedgerInfo ==
    [epoch |-> None, ledger_version |-> None, oldest_ledger_version |-> None,
     block_height |-> None, oldest_block_height |-> None, ledger_timestamp |-> None]

get_latest_ledger_info ==
    LedgerInfo_new(get_latest_ledger_info_with_signatures, oldest,
                   BlockHeightOf(oldest), Height)

\* Context::state_view: resolve(requested) over the latest ledger metadata.
\* The view it returns is pinned to ledger_version.
state_view(requested) ==
    LET ledger_info == get_latest_ledger_info
        version == IF requested = None THEN ledger_info.ledger_version ELSE requested
    IN  IF version < ledger_info.oldest_ledger_version \/ version > ledger_info.ledger_version
        THEN [err |-> "Gone", ledger_info |-> ledger_info, ledger_version |-> version]
        ELSE [err |-> "", ledger_info |-> ledger_info, ledger_version |-> version]

\* DbStateView::get_state_value_bytes at the view's version.
get_state_value_bytes(version, state_key) == ValueAt(log, state_key, version)

(***************************************************************************)
(* Requests                                                                *)
(***************************************************************************)
AcceptTypes == {"Json", "Bcs"}

NoReq ==
    [op |-> "", accept_type |-> "", ledger_version |-> None, address |-> "",
     name |-> "", key |-> <<>>, block_height |-> None, epoch_number |-> None,
     duration_secs |-> None]

NoLoc ==
    [ledger_info |-> NoLedgerInfo, ledger_version |-> None, state_key |-> <<>>,
     tx_version |-> None, latest_li_w_sig |-> NoSignedLedgerInfo,
     latest_epoch_state |-> NoEpochState, state_proof |-> <<>>,
     element_hash |-> <<>>, epoch_number |-> None,
     first_viable_version |-> None, latest_state_checkpoint |-> None,
     now |-> None]

Response(kind, payload, ledger_info) ==
    [kind |-> kind, payload |-> payload, ledger_info |-> ledger_info]

NoOut == Response("", <<>>, NoLedgerInfo)

NoWindow == [latest |-> None, oldest |-> None]

\* Versions a client may ask for: everything committed and one beyond.
RequestVersions == {None} \cup (0..(Latest + 1))

Finish(response) ==
    /\ pc' = "done"
    /\ out' = response

\* Mutant: the values of the request outlive its response.
Respond_keeps_locals ==
    /\ pc = "done"
    /\ pc' = "idle"
    /\ req' = NoReq
    /\ loc' = loc
    /\ out' = NoOut
    /\ reads' = <<>>
    /\ window' = NoWindow
    /\ UNCHANGED <<log, oldest>>

\* The response has been sent; the request's values are dropped.
Respond ==
    /\ pc = "done"
    /\ pc' = "idle"
    /\ req' = NoReq
    /\ loc' = NoLoc
    /\ out' = NoOut
    /\ reads' = <<>>
    /\ window' = NoWindow
    /\ UNCHANGED <<log, oldest>>

(***************************************************************************)
(* The ledger keeps moving while requests run                              *)
(***************************************************************************)
Commit ==
    /\ pc # "done"
    /\ Height < MaxHeight
    /\ \E block \in BlockKinds : log' = Append(log, block)
    /\ UNCHANGED <<oldest, pc, req, loc, out, reads, window>>

Prune ==
    /\ pc # "done"
    /\ oldest < Latest
    /\ oldest' = oldest + 1
    /\ UNCHANGED <<log, pc, req, loc, out, reads, window>>

(***************************************************************************)
(* Value decoding (the decoded format)                                     *)
(***************************************************************************)
\* Bytes are a length byte followed by that many body bytes.
WellFormed(bytes) == Len(bytes) >= 1 /\ bytes[1] = Len(bytes) - 1

\* try_into_resource / try_parse_abi / try_into_move_value.
Decode(type, bytes) == [type |-> type, fields |-> Tail(bytes)]

\* bcs::to_bytes(&StateValue): the serialization frames the value's bytes
\* with their length.
bcs_to_bytes(state_value) == <<Len(state_value)>> \o state_value

(***************************************************************************)
(* Error responses                                                         *)
(***************************************************************************)
\* internal_with_code: the message says what failed.
internal_with_code(err, ledger_info) == Response("Internal", <<err>>, ledger_info)

\* build_not_found: what was looked for, its description and the error code.
build_not_found(resource, identifier, error_code, ledger_info) ==
    Response("NotFound",
             [resource |-> resource, identifier |-> identifier, error_code |-> error_code],
             ledger_info)

resource_not_found(address, struct_tag, ledger_version, ledger_info) ==
    build_not_found("Resource", <<address, struct_tag, ledger_version>>,
                    "ResourceNotFound", ledger_info)

module_not_found(address, module_name, ledger_version, ledger_info) ==
    build_not_found("Module", <<address, module_name, ledger_version>>,
                    "ModuleNotFound", ledger_info)

table_item_not_found(table_handle, table_key, ledger_version, ledger_info) ==
    build_not_found("Table Item", <<table_handle, table_key, ledger_version>>,
                    "TableItemNotFound", ledger_info)

(***************************************************************************)
(* get_resource                                                            *)
(***************************************************************************)
ResourceTypes == {AccountTag, "0x1::deep<...>", "0x1::bad::"}
\* MoveStructTag::verify(0)
VerifyResourceType(resource_type) == resource_type # "0x1::deep<...>"
\* MoveStructTag -> StructTag
ParsesAsStructTag(resource_type) == resource_type # "0x1::bad::"

\* Mutant: the requested version is not handed to state_view.
get_account_resource_drops_version ==
    /\ pc = "idle"
    /\ \E accept_type \in AcceptTypes, address \in Addresses,
          resource_type \in ResourceTypes, ledger_version \in RequestVersions :
        /\ req' = [NoReq EXCEPT !.op = "get_resource", !.accept_type = accept_type,
                                !.address = address, !.name = resource_type,
                                !.ledger_version = ledger_version]
        /\ IF ~VerifyResourceType(resource_type) \/ ~ParsesAsStructTag(resource_type)
           THEN /\ Finish(Response("BadInput", <<>>, NoLedgerInfo))
                /\ UNCHANGED <<loc, reads, window>>
           ELSE /\ reads' = Append(reads, "ledger_info")
                /\ window' = [latest |-> Latest, oldest |-> oldest]
                /\ \/ /\ Finish(Response("Internal", <<>>, NoLedgerInfo))
                      /\ UNCHANGED loc
                   \/ LET sv == state_view(None)
                      IN  IF sv.err # ""
                          THEN /\ Finish(Response(sv.err, <<>>, sv.ledger_info))
                               /\ UNCHANGED loc
                          ELSE /\ pc' = "resource"
                               /\ loc' = [NoLoc EXCEPT !.ledger_info = sv.ledger_info,
                                                       !.ledger_version = sv.ledger_version,
                                                       !.state_key = ResourceKey(address, resource_type)]
                               /\ UNCHANGED out
    /\ UNCHANGED <<log, oldest>>

\* The endpoint and the head of StateApi::resource, up to the snapshot.
get_account_resource ==
    /\ pc = "idle"
    /\ \E accept_type \in AcceptTypes, address \in Addresses,
          resource_type \in ResourceTypes, ledger_version \in RequestVersions :
        /\ req' = [NoReq EXCEPT !.op = "get_resource", !.accept_type = accept_type,
                                !.address = address, !.name = resource_type,
                                !.ledger_version = ledger_version]
        /\ IF ~VerifyResourceType(resource_type) \/ ~ParsesAsStructTag(resource_type)
           THEN /\ Finish(Response("BadInput", <<>>, NoLedgerInfo))
                /\ UNCHANGED <<loc, reads, window>>
           ELSE /\ reads' = Append(reads, "ledger_info")
                /\ window' = [latest |-> Latest, oldest |-> oldest]
                /\ \/ /\ Finish(Response("Internal", <<>>, NoLedgerInfo))
                      /\ UNCHANGED loc
                   \/ LET sv == state_view(ledger_version)
                      IN  IF sv.err # ""
                          THEN /\ Finish(Response(sv.err, <<>>, sv.ledger_info))
                               /\ UNCHANGED loc
                          ELSE /\ pc' = "resource"
                               /\ loc' = [NoLoc EXCEPT !.ledger_info = sv.ledger_info,
                                                       !.ledger_version = sv.ledger_version,
                                                       !.state_key = ResourceKey(address, resource_type)]
                               /\ UNCHANGED out
    /\ UNCHANGED <<log, oldest>>

\* Mutant: the raw response serializes the byte vector again.
resource_serializes_bytes ==
    /\ pc = "resource"
    /\ reads' = Append(reads, "state_value")
    /\ \/ Finish(internal_with_code("Failed to query DB to check for resource", loc.ledger_info))
       \/ LET bytes == get_state_value_bytes(loc.ledger_version, loc.state_key)
          IN  IF bytes = NoBytes
              THEN Finish(resource_not_found(req.address, req.name, loc.ledger_version,
                                             loc.ledger_info))
              ELSE IF req.accept_type = "Json"
              THEN IF ~WellFormed(bytes)
                   THEN Finish(internal_with_code("Failed to deserialize resource data retrieved from DB",
                                               loc.ledger_info))
                   ELSE Finish(Response("Ok", Decode(req.name, bytes), loc.ledger_info))
              ELSE Finish(Response("Ok", bcs_to_bytes(bytes), loc.ledger_info))
    /\ UNCHANGED <<log, oldest, req, loc, window>>

\* Mutant: the decoded value is made from the bytes of the latest version.
resource_decodes_latest ==
    /\ pc = "resource"
    /\ reads' = Append(reads, "state_value")
    /\ \/ Finish(internal_with_code("Failed to query DB to check for resource", loc.ledger_info))
       \/ LET bytes == get_state_value_bytes(loc.ledger_version, loc.state_key)
          IN  IF bytes = NoBytes
              THEN Finish(resource_not_found(req.address, req.name, loc.ledger_version,
                                             loc.ledger_info))
              ELSE IF req.accept_type = "Json"
              THEN IF ~WellFormed(bytes)
                   THEN Finish(internal_with_code("Failed to deserialize resource data retrieved from DB",
                                               loc.ledger_info))
                   ELSE Finish(Response("Ok", Decode(req.name, ValueAt(log, loc.state_key, Latest)), loc.ledger_info))
              ELSE Finish(Response("Ok", bytes, loc.ledger_info))
    /\ UNCHANGED <<log, oldest, req, loc, window>>

\* StateApi::resource from find_resource to the response.
resource ==
    /\ pc = "resource"
    /\ reads' = Append(reads, "state_value")
    /\ \/ Finish(internal_with_code("Failed to query DB to check for resource", loc.ledger_info))
       \/ LET bytes == get_state_value_bytes(loc.ledger_version, loc.state_key)
          IN  IF bytes = NoBytes
              THEN Finish(resource_not_found(req.address, req.name, loc.ledger_version,
                                             loc.ledger_info))
              ELSE IF req.accept_type = "Json"
              THEN IF ~WellFormed(bytes)
                   THEN Finish(internal_with_code("Failed to deserialize resource data retrieved from DB",
                                               loc.ledger_info))
                   ELSE Finish(Response("Ok", Decode(req.name, bytes), loc.ledger_info))
              ELSE Finish(Response("Ok", bytes, loc.ledger_info))
    /\ UNCHANGED <<log, oldest, req, loc, window>>

(***************************************************************************)
(* get_module                                                              *)
(***************************************************************************)
ModuleNames == {"coin", "bad name"}
verify_module_identifier(module_name) == module_name # "bad name"

\* Mutant: the requested version is not handed to state_view.
get_account_module_drops_version ==
    /\ pc = "idle"
    /\ \E accept_type \in AcceptTypes, address \in Addresses,
          module_name \in ModuleNames, ledger_version \in RequestVersions :
        /\ req' = [NoReq EXCEPT !.op = "get_module", !.accept_type = accept_type,
                                !.address = address, !.name = module_name,
                                !.ledger_version = ledger_version]
        /\ IF ~verify_module_identifier(module_name)
           THEN /\ Finish(Response("BadInput", <<>>, NoLedgerInfo))
                /\ UNCHANGED <<loc, reads, window>>
           ELSE /\ reads' = Append(reads, "ledger_info")
                /\ window' = [latest |-> Latest, oldest |-> oldest]
                /\ \/ /\ Finish(Response("Internal", <<>>, NoLedgerInfo))
                      /\ UNCHANGED loc
                   \/ LET sv == state_view(None)
                      IN  IF sv.err # ""
                          THEN /\ Finish(Response(sv.err, <<>>, sv.ledger_info))
                               /\ UNCHANGED loc
                          ELSE /\ pc' = "module"
                               /\ loc' = [NoLoc EXCEPT !.ledger_info = sv.ledger_info,
                                                       !.ledger_version = sv.ledger_version,
                                                       !.state_key = ModuleKey(address, module_name)]
                               /\ UNCHANGED out
    /\ UNCHANGED <<log, oldest>>

\* Mutant: the rejected module name is answered with the latest ledger info attached.
get_account_module_bad_request_with_info ==
    /\ pc = "idle"
    /\ \E accept_type \in AcceptTypes, address \in Addresses,
          module_name \in ModuleNames, ledger_version \in RequestVersions :
        /\ req' = [NoReq EXCEPT !.op = "get_module", !.accept_type = accept_type,
                                !.address = address, !.name = module_name,
                                !.ledger_version = ledger_version]
        /\ IF ~verify_module_identifier(module_name)
           THEN /\ Finish(Response("BadInput", <<>>, get_latest_ledger_info))
                /\ UNCHANGED <<loc, reads, window>>
           ELSE /\ reads' = Append(reads, "ledger_info")
                /\ window' = [latest |-> Latest, oldest |-> oldest]
                /\ \/ /\ Finish(Response("Internal", <<>>, NoLedgerInfo))
                      /\ UNCHANGED loc
                   \/ LET sv == state_view(ledger_version)
                      IN  IF sv.err # ""
                          THEN /\ Finish(Response(sv.err, <<>>, sv.ledger_info))
                               /\ UNCHANGED loc
                          ELSE /\ pc' = "module"
                               /\ loc' = [NoLoc EXCEPT !.ledger_info = sv.ledger_info,
                                                       !.ledger_version = sv.ledger_version,
                                                       !.state_key = ModuleKey(address, module_name)]
                               /\ UNCHANGED out
    /\ UNCHANGED <<log, oldest>>

\* The endpoint and the head of StateApi::module, up to the snapshot.
get_account_module ==
    /\ pc = "idle"
    /\ \E accept_type \in AcceptTypes, address \in Addresses,
          module_name \in ModuleNames, ledger_version \in RequestVersions :
        /\ req' = [NoReq EXCEPT !.op = "get_module", !.accept_type = accept_type,
                                !.address = address, !.name = module_name,
                                !.ledger_version = ledger_version]
        /\ IF ~verify_module_identifier(module_name)
           THEN /\ Finish(Response("BadInput", <<>>, NoLedgerInfo))
                /\ UNCHANGED <<loc, reads, window>>
           ELSE /\ reads' = Append(reads, "ledger_info")
                /\ window' = [latest |-> Latest, oldest |-> oldest]
                /\ \/ /\ Finish(Response("Internal", <<>>, NoLedgerInfo))
                      /\ UNCHANGED loc
                   \/ LET sv == state_view(ledger_version)
                      IN  IF sv.err # ""
                          THEN /\ Finish(Response(sv.err, <<>>, sv.ledger_info))
                               /\ UNCHANGED loc
                          ELSE /\ pc' = "module"
                               /\ loc' = [NoLoc EXCEPT !.ledger_info = sv.ledger_info,
                                                       !.ledger_version = sv.ledger_version,
                                                       !.state_key = ModuleKey(address, module_name)]
                               /\ UNCHANGED out
    /\ UNCHANGED <<log, oldest>>

\* Mutant: the bytes are read from a fresh view of the latest version.
module_reads_latest ==
    /\ pc = "module"
    /\ reads' = Append(reads, "state_value")
    /\ \/ Finish(internal_with_code("Failed to query DB to check for module", loc.ledger_info))
       \/ LET bytes == get_state_value_bytes(Latest, loc.state_key)
          IN  IF bytes = NoBytes
              THEN Finish(module_not_found(req.address, req.name, loc.ledger_version,
                                           loc.ledger_info))
              ELSE IF req.accept_type = "Json"
              THEN IF ~WellFormed(bytes)
                   THEN Finish(internal_with_code("Failed to parse move module ABI from bytes retrieved from storage",
                                               loc.ledger_info))
                   ELSE Finish(Response("Ok", Decode("module", bytes), loc.ledger_info))
              ELSE Finish(Response("Ok", bytes, loc.ledger_info))
    /\ UNCHANGED <<log, oldest, req, loc, window>>

\* StateApi::module from get_state_value_bytes to the response.
module ==
    /\ pc = "module"
    /\ reads' = Append(reads, "state_value")
    /\ \/ Finish(internal_with_code("Failed to query DB to check for module", loc.ledger_info))
       \/ LET bytes == get_state_value_bytes(loc.ledger_version, loc.state_key)
          IN  IF bytes = NoBytes
              THEN Finish(module_not_found(req.address, req.name, loc.ledger_version,
                                           loc.ledger_info))
              ELSE IF req.accept_type = "Json"
              THEN IF ~WellFormed(bytes)
                   THEN Finish(internal_with_code("Failed to parse move module ABI from bytes retrieved from storage",
                                               loc.ledger_info))
                   ELSE Finish(Response("Ok", Decode("module", bytes), loc.ledger_info))
              ELSE Finish(Response("Ok", bytes, loc.ledger_info))
    /\ UNCHANGED <<log, oldest, req, loc, window>>

(***************************************************************************)
(* get_table_item                                                          *)
(***************************************************************************)
\* A typed key: the number it denotes and how deeply its value nests.
TableItemRequests ==
    {[key_type |-> "u8", value_type |-> "u64", key |-> 7, depth |-> 1],
     [key_type |-> "u8", value_type |-> "bool", key |-> 7, depth |-> 1],
     [key_type |-> "deep<...>", value_type |-> "u64", key |-> 7, depth |-> 1],
     [key_type |-> "bad::", value_type |-> "u64", key |-> 7, depth |-> 1],
     [key_type |-> "u8", value_type |-> "bad::", key |-> 7, depth |-> 1],
     [key_type |-> "u8", value_type |-> "u64", key |-> 300, depth |-> 1],
     [key_type |-> "vector", value_type |-> "u64", key |-> 7, depth |-> 200]}

\* TableItemRequest::verify
VerifyTableItemRequest(r) == r.key_type # "deep<...>" /\ r.value_type # "deep<...>"
\* MoveType -> TypeTag
ParsesAsTypeTag(type) == type # "bad::"
\* try_into_vm_value: the key must be a value of key_type.
try_into_vm_value(key_type, key) == key_type = "vector" \/ key \in 0..255
\* simple_serialize gives up on values nested deeper than the VM allows.
simple_serialize(r) == IF r.depth > 128 THEN NoBytes ELSE <<r.key>>

\* Mutant: an absent version is taken to be version 0.
get_table_item_defaults_version ==
    /\ pc = "idle"
    /\ \E accept_type \in AcceptTypes, table_handle \in Addresses,
          table_item_request \in TableItemRequests, ledger_version \in RequestVersions :
        /\ req' = [NoReq EXCEPT !.op = "get_table_item", !.accept_type = accept_type,
                                !.address = table_handle, !.key = table_item_request,
                                !.ledger_version = ledger_version]
        /\ IF \/ ~VerifyTableItemRequest(table_item_request)
              \/ ~ParsesAsTypeTag(table_item_request.key_type)
              \/ ~ParsesAsTypeTag(table_item_request.value_type)
           THEN /\ Finish(Response("BadInput", <<>>, NoLedgerInfo))
                /\ UNCHANGED <<loc, reads, window>>
           ELSE /\ reads' = Append(reads, "ledger_info")
                /\ window' = [latest |-> Latest, oldest |-> oldest]
                /\ \/ /\ Finish(Response("Internal", <<>>, NoLedgerInfo))
                      /\ UNCHANGED loc
                   \/ LET sv == state_view(IF ledger_version = None THEN 0 ELSE ledger_version)
                          raw_key == simple_serialize(table_item_request)
                      IN  IF sv.err # ""
                          THEN /\ Finish(Response(sv.err, <<>>, sv.ledger_info))
                               /\ UNCHANGED loc
                          ELSE IF \/ ~try_into_vm_value(table_item_request.key_type,
                                                        table_item_request.key)
                                  \/ raw_key = NoBytes
                          THEN /\ Finish(Response("BadInput", <<>>, sv.ledger_info))
                               /\ UNCHANGED loc
                          ELSE /\ pc' = "table_item"
                               /\ loc' = [NoLoc EXCEPT !.ledger_info = sv.ledger_info,
                                                       !.ledger_version = sv.ledger_version,
                                                       !.state_key = TableItemKey(table_handle, raw_key)]
                               /\ UNCHANGED out
    /\ UNCHANGED <<log, oldest>>

\* Mutant: a key that does not convert is reported as an internal error.
get_table_item_key_failure_internal ==
    /\ pc = "idle"
    /\ \E accept_type \in AcceptTypes, table_handle \in Addresses,
          table_item_request \in TableItemRequests, ledger_version \in RequestVersions :
        /\ req' = [NoReq EXCEPT !.op = "get_table_item", !.accept_type = accept_type,
                                !.address = table_handle, !.key = table_item_request,
                                !.ledger_version = ledger_version]
        /\ IF \/ ~VerifyTableItemRequest(table_item_request)
              \/ ~ParsesAsTypeTag(table_item_request.key_type)
              \/ ~ParsesAsTypeTag(table_item_request.value_type)
           THEN /\ Finish(Response("BadInput", <<>>, NoLedgerInfo))
                /\ UNCHANGED <<loc, reads, window>>
           ELSE /\ reads' = Append(reads, "ledger_info")
                /\ window' = [latest |-> Latest, oldest |-> oldest]
                /\ \/ /\ Finish(Response("Internal", <<>>, NoLedgerInfo))
                      /\ UNCHANGED loc
                   \/ LET sv == state_view(ledger_version)
                          raw_key == simple_serialize(table_item_request)
                      IN  IF sv.err # ""
                          THEN /\ Finish(Response(sv.err, <<>>, sv.ledger_info))
                               /\ UNCHANGED loc
                          ELSE IF \/ ~try_into_vm_value(table_item_request.key_type,
                                                        table_item_request.key)
                                  \/ raw_key = NoBytes
                          THEN /\ Finish(Response("Internal", <<>>, sv.ledger_info))
                               /\ UNCHANGED loc
                          ELSE /\ pc' = "table_item"
                               /\ loc' = [NoLoc EXCEPT !.ledger_info = sv.ledger_info,
                                                       !.ledger_version = sv.ledger_version,
                                                       !.state_key = TableItemKey(table_handle, raw_key)]
                               /\ UNCHANGED out
    /\ UNCHANGED <<log, oldest>>

\* The endpoint and the head of StateApi::table_item, up to the raw key.
get_table_item ==
    /\ pc = "idle"
    /\ \E accept_type \in AcceptTypes, table_handle \in Addresses,
          table_item_request \in TableItemRequests, ledger_version \in RequestVersions :
        /\ req' = [NoReq EXCEPT !.op = "get_table_item", !.accept_type = accept_type,
                                !.address = table_handle, !.key = table_item_request,
                                !.ledger_version = ledger_version]
        /\ IF \/ ~VerifyTableItemRequest(table_item_request)
              \/ ~ParsesAsTypeTag(table_item_request.key_type)
              \/ ~ParsesAsTypeTag(table_item_request.value_type)
           THEN /\ Finish(Response("BadInput", <<>>, NoLedgerInfo))
                /\ UNCHANGED <<loc, reads, window>>
           ELSE /\ reads' = Append(reads, "ledger_info")
                /\ window' = [latest |-> Latest, oldest |-> oldest]
                /\ \/ /\ Finish(Response("Internal", <<>>, NoLedgerInfo))
                      /\ UNCHANGED loc
                   \/ LET sv == state_view(ledger_version)
                          raw_key == simple_serialize(table_item_request)
                      IN  IF sv.err # ""
                          THEN /\ Finish(Response(sv.err, <<>>, sv.ledger_info))
                               /\ UNCHANGED loc
                          ELSE IF \/ ~try_into_vm_value(table_item_request.key_type,
                                                        table_item_request.key)
                                  \/ raw_key = NoBytes
                          THEN /\ Finish(Response("BadInput", <<>>, sv.ledger_info))
                               /\ UNCHANGED loc
                          ELSE /\ pc' = "table_item"
                               /\ loc' = [NoLoc EXCEPT !.ledger_info = sv.ledger_info,
                                                       !.ledger_version = sv.ledger_version,
                                                       !.state_key = TableItemKey(table_handle, raw_key)]
                               /\ UNCHANGED out
    /\ UNCHANGED <<log, oldest>>

\* Mutant: a value that does not decode is reported as an absent table item.
table_item_decode_failure_not_found ==
    /\ pc = "table_item"
    /\ reads' = Append(reads, "state_value")
    /\ \/ Finish(internal_with_code("Failed when trying to retrieve table item from the DB", loc.ledger_info))
       \/ LET bytes == get_state_value_bytes(loc.ledger_version, loc.state_key)
          IN  IF bytes = NoBytes
              THEN Finish(table_item_not_found(req.address, req.key.key, loc.ledger_version,
                                               loc.ledger_info))
              ELSE IF req.accept_type = "Json"
              THEN IF ~WellFormed(bytes) \/ req.key.value_type # "u64"
                   THEN Finish(table_item_not_found(req.address, req.key.key, loc.ledger_version,
                                               loc.ledger_info))
                   ELSE Finish(Response("Ok", Decode(req.key.value_type, bytes), loc.ledger_info))
              ELSE Finish(Response("Ok", bytes, loc.ledger_info))
    /\ UNCHANGED <<log, oldest, req, loc, window>>

\* StateApi::table_item from get_state_value_bytes to the response.
table_item ==
    /\ pc = "table_item"
    /\ reads' = Append(reads, "state_value")
    /\ \/ Finish(internal_with_code("Failed when trying to retrieve table item from the DB", loc.ledger_info))
       \/ LET bytes == get_state_value_bytes(loc.ledger_version, loc.state_key)
          IN  IF bytes = NoBytes
              THEN Finish(table_item_not_found(req.address, req.key.key, loc.ledger_version,
                                               loc.ledger_info))
              ELSE IF req.accept_type = "Json"
              THEN IF ~WellFormed(bytes) \/ req.key.value_type # "u64"
                   THEN Finish(internal_with_code("Failed to deserialize table item retrieved from DB",
                                               loc.ledger_info))
                   ELSE Finish(Response("Ok", Decode(req.key.value_type, bytes), loc.ledger_info))
              ELSE Finish(Response("Ok", bytes, loc.ledger_info))
    /\ UNCHANGED <<log, oldest, req, loc, window>>

(***************************************************************************)
(* get_raw_table_item                                                      *)
(***************************************************************************)
RawTableKeys == {<<7>>}

\* The endpoint and the head of StateApi::raw_table_item.
get_raw_table_item ==
    /\ pc = "idle"
    /\ \E accept_type \in AcceptTypes, table_handle \in Addresses,
          key \in RawTableKeys, ledger_version \in RequestVersions :
        /\ req' = [NoReq EXCEPT !.op = "get_raw_table_item", !.accept_type = accept_type,
                                !.address = table_handle, !.key = key,
                                !.ledger_version = ledger_version]
        /\ IF accept_type = "Json"
           THEN /\ Finish(Response("FormatNotSupported", <<>>, NoLedgerInfo))
                /\ UNCHANGED <<loc, reads, window>>
           ELSE /\ reads' = Append(reads, "ledger_info")
                /\ window' = [latest |-> Latest, oldest |-> oldest]
                /\ \/ /\ Finish(Response("Internal", <<>>, NoLedgerInfo))
                      /\ UNCHANGED loc
                   \/ LET sv == state_view(ledger_version)
                      IN  IF sv.err # ""
                          THEN /\ Finish(Response(sv.err, <<>>, sv.ledger_info))
                               /\ UNCHANGED loc
                          ELSE /\ pc' = "raw_table_item"
                               /\ loc' = [NoLoc EXCEPT !.ledger_info = sv.ledger_info,
                                                       !.ledger_version = sv.ledger_version,
                                                       !.state_key = TableItemKey(table_handle, key)]
                               /\ UNCHANGED out
    /\ UNCHANGED <<log, oldest>>

\* Mutant: the response carries the ledger info of the moment it is built.
raw_table_item_fresh_ledger_info ==
    /\ pc = "raw_table_item"
    /\ reads' = Append(reads, "state_value")
    /\ \/ Finish(internal_with_code("Failed when trying to retrieve table item from the DB", loc.ledger_info))
       \/ LET bytes == get_state_value_bytes(loc.ledger_version, loc.state_key)
          IN  IF bytes = NoBytes
              THEN Finish(build_not_found("Table Item",
                                          <<req.address, req.key, loc.ledger_version>>,
                                          "TableItemNotFound", loc.ledger_info))
              ELSE IF req.accept_type = "Json"
              THEN Finish(Response("FormatNotSupported", <<>>, NoLedgerInfo))
              ELSE Finish(Response("Ok", bytes, get_latest_ledger_info))
    /\ UNCHANGED <<log, oldest, req, loc, window>>

\* StateApi::raw_table_item from get_state_value_bytes to the response.
raw_table_item ==
    /\ pc = "raw_table_item"
    /\ reads' = Append(reads, "state_value")
    /\ \/ Finish(internal_with_code("Failed when trying to retrieve table item from the DB", loc.ledger_info))
       \/ LET bytes == get_state_value_bytes(loc.ledger_version, loc.state_key)
          IN  IF bytes = NoBytes
              THEN Finish(build_not_found("Table Item",
                                          <<req.address, req.key, loc.ledger_version>>,
                                          "TableItemNotFound", loc.ledger_info))
              ELSE IF req.accept_type = "Json"
              THEN Finish(Response("FormatNotSupported", <<>>, NoLedgerInfo))
              ELSE Finish(Response("Ok", bytes, loc.ledger_info))
    /\ UNCHANGED <<log, oldest, req, loc, window>>

(***************************************************************************)
(* get_raw_state_value                                                     *)
(***************************************************************************)
\* The serialized form of a state key, as the request carries it.
StateKeyBytes(state_key) == <<"bcs", state_key>>
RawStateKeys ==
    {StateKeyBytes(AccountKey("0xA")), StateKeyBytes(AccountKey("0xB")), <<"garbage">>}
\* bcs::from_bytes::<StateKey>
DeserializesAsStateKey(key) == key[1] = "bcs"
StateKeyFromBytes(key) == key[2]

\* Mutant: the format is only checked after the read, as in raw_value.
get_raw_state_value_checks_format_last ==
    /\ pc = "idle"
    /\ \E accept_type \in AcceptTypes, key \in RawStateKeys,
          ledger_version \in RequestVersions :
        /\ req' = [NoReq EXCEPT !.op = "get_raw_state_value", !.accept_type = accept_type,
                                !.key = key, !.ledger_version = ledger_version]
        /\ IF FALSE
           THEN /\ Finish(Response("FormatNotSupported", <<>>, NoLedgerInfo))
                /\ UNCHANGED <<loc, reads, window>>
           ELSE /\ reads' = Append(reads, "ledger_info")
                /\ window' = [latest |-> Latest, oldest |-> oldest]
                /\ \/ /\ Finish(Response("Internal", <<>>, NoLedgerInfo))
                      /\ UNCHANGED loc
                   \/ LET sv == state_view(ledger_version)
                      IN  IF sv.err # ""
                          THEN /\ Finish(Response(sv.err, <<>>, sv.ledger_info))
                               /\ UNCHANGED loc
                          ELSE IF ~DeserializesAsStateKey(key)
                          THEN /\ Finish(internal_with_code("Failed deserializing state value",
                                                          sv.ledger_info))
                               /\ UNCHANGED loc
                          ELSE /\ pc' = "raw_value"
                               /\ loc' = [NoLoc EXCEPT !.ledger_info = sv.ledger_info,
                                                       !.ledger_version = sv.ledger_version,
                                                       !.state_key = StateKeyFromBytes(key)]
                               /\ UNCHANGED out
    /\ UNCHANGED <<log, oldest>>

\* The endpoint and the head of StateApi::raw_value, up to the state key.
get_raw_state_value ==
    /\ pc = "idle"
    /\ \E accept_type \in AcceptTypes, key \in RawStateKeys,
          ledger_version \in RequestVersions :
        /\ req' = [NoReq EXCEPT !.op = "get_raw_state_value", !.accept_type = accept_type,
                                !.key = key, !.ledger_version = ledger_version]
        /\ IF accept_type = "Json"
           THEN /\ Finish(Response("FormatNotSupported", <<>>, NoLedgerInfo))
                /\ UNCHANGED <<loc, reads, window>>
           ELSE /\ reads' = Append(reads, "ledger_info")
                /\ window' = [latest |-> Latest, oldest |-> oldest]
                /\ \/ /\ Finish(Response("Internal", <<>>, NoLedgerInfo))
                      /\ UNCHANGED loc
                   \/ LET sv == state_view(ledger_version)
                      IN  IF sv.err # ""
                          THEN /\ Finish(Response(sv.err, <<>>, sv.ledger_info))
                               /\ UNCHANGED loc
                          ELSE IF ~DeserializesAsStateKey(key)
                          THEN /\ Finish(internal_with_code("Failed deserializing state value",
                                                          sv.ledger_info))
                               /\ UNCHANGED loc
                          ELSE /\ pc' = "raw_value"
                               /\ loc' = [NoLoc EXCEPT !.ledger_info = sv.ledger_info,
                                                       !.ledger_version = sv.ledger_version,
                                                       !.state_key = StateKeyFromBytes(key)]
                               /\ UNCHANGED out
    /\ UNCHANGED <<log, oldest>>

\* Mutant: the absent state value is reported with the table item error code.
raw_value_table_item_code ==
    /\ pc = "raw_value"
    /\ reads' = Append(reads, "state_value")
    /\ \/ Finish(internal_with_code("Failed fetching state value", loc.ledger_info))
       \/ LET state_value == get_state_value_bytes(loc.ledger_version, loc.state_key)
          IN  IF state_value = NoBytes
              THEN Finish(build_not_found("Raw State Value",
                                          <<req.key, loc.ledger_version>>,
                                          "TableItemNotFound", loc.ledger_info))
              ELSE IF req.accept_type = "Json"
              THEN Finish(Response("FormatNotSupported", <<>>, NoLedgerInfo))
              ELSE Finish(Response("Ok", bcs_to_bytes(state_value), loc.ledger_info))
    /\ UNCHANGED <<log, oldest, req, loc, window>>

\* StateApi::raw_value from get_state_value to the response.
raw_value ==
    /\ pc = "raw_value"
    /\ reads' = Append(reads, "state_value")
    /\ \/ Finish(internal_with_code("Failed fetching state value", loc.ledger_info))
       \/ LET state_value == get_state_value_bytes(loc.ledger_version, loc.state_key)
          IN  IF state_value = NoBytes
              THEN Finish(build_not_found("Raw State Value",
                                          <<req.key, loc.ledger_version>>,
                                          "StateValueNotFound", loc.ledger_info))
              ELSE IF req.accept_type = "Json"
              THEN Finish(Response("FormatNotSupported", <<>>, NoLedgerInfo))
              ELSE Finish(Response("Ok", bcs_to_bytes(state_value), loc.ledger_info))
    /\ UNCHANGED <<log, oldest, req, loc, window>>

(***************************************************************************)
(* get_account_proof                                                       *)
(***************************************************************************)
Hash(x) == <<"hash", x>>
\* bcs::to_bytes of a proof payload
bcs_to_bytes_payload(payload) == <<"bcs", payload>>

\* Context::get_block_by_height, checked against the request's snapshot.
get_block_by_height(height, ledger_info) ==
    IF height < ledger_info.oldest_block_height
    THEN [err |-> "Gone", last_version |-> None]
    ELSE IF height > ledger_info.block_height
    THEN [err |-> "NotFound", last_version |-> None]
    ELSE [err |-> "", last_version |-> LastVersionOf(height)]

\* DbReader::get_state_value_with_proof_by_version
get_state_value_with_proof_by_version(state_key, version) ==
    [state_value |-> ValueAt(log, state_key, version),
     proof |-> [version |-> version, key |-> Hash(state_key),
                leaf |-> Hash(ValueAt(log, state_key, version))]]

\* DbReader::get_transaction_by_version
get_transaction_by_version(version, ledger_version) ==
    [transaction_info |-> [version |-> version],
     ledger_info_to_transaction_info_proof |->
         [version |-> version, ledger_version |-> ledger_version]]

RequestHeights == {None} \cup (0..(Height + 1))

\* The endpoint and StateApi::proof up to the snapshot.
get_account_proof ==
    /\ pc = "idle"
    /\ \E accept_type \in AcceptTypes, address \in Addresses,
          block_height \in RequestHeights :
        /\ req' = [NoReq EXCEPT !.op = "get_account_proof", !.accept_type = accept_type,
                                !.address = address, !.block_height = block_height]
        /\ reads' = Append(reads, "ledger_info")
        /\ window' = [latest |-> Latest, oldest |-> oldest]
        /\ \/ /\ Finish(Response("Internal", <<>>, NoLedgerInfo))
              /\ UNCHANGED loc
           \/ LET sv == state_view(None)
              IN  /\ pc' = IF block_height # None THEN "proof_block" ELSE "proof_li"
                  /\ loc' = [NoLoc EXCEPT !.ledger_info = sv.ledger_info,
                                          !.ledger_version = sv.ledger_version,
                                          !.tx_version = sv.ledger_version]
                  /\ UNCHANGED out
    /\ UNCHANGED <<log, oldest>>

\* tx_version from the block height
proof_get_block_by_height ==
    /\ pc = "proof_block"
    /\ reads' = Append(reads, "block")
    /\ \/ /\ Finish(Response("Internal", <<>>, loc.ledger_info))
          /\ UNCHANGED loc
       \/ LET block == get_block_by_height(req.block_height, loc.ledger_info)
          IN  IF block.err # ""
              THEN /\ Finish(Response(block.err, <<>>, loc.ledger_info))
                   /\ UNCHANGED loc
              ELSE /\ pc' = "proof_li"
                   /\ loc' = [loc EXCEPT !.tx_version = block.last_version]
                   /\ UNCHANGED out
    /\ UNCHANGED <<log, oldest, req, window>>

\* Mutant: a failed read of the signed ledger info is tried again.
proof_get_latest_ledger_info_with_signatures_retries ==
    /\ pc = "proof_li"
    /\ reads' = Append(reads, "signed_ledger_info")
    /\ \/ UNCHANGED <<pc, out, loc>>
       \/ /\ pc' = "proof_epoch_state"
          /\ loc' = [loc EXCEPT !.latest_li_w_sig = get_latest_ledger_info_with_signatures,
                                !.state_key = AccountKey(req.address)]
          /\ UNCHANGED out
    /\ UNCHANGED <<log, oldest, req, window>>

\* latest_li_w_sig and the account key
proof_get_latest_ledger_info_with_signatures ==
    /\ pc = "proof_li"
    /\ reads' = Append(reads, "signed_ledger_info")
    /\ \/ /\ Finish(Response("Internal", <<>>, loc.ledger_info))
          /\ UNCHANGED loc
       \/ /\ pc' = "proof_epoch_state"
          /\ loc' = [loc EXCEPT !.latest_li_w_sig = get_latest_ledger_info_with_signatures,
                                !.state_key = AccountKey(req.address)]
          /\ UNCHANGED out
    /\ UNCHANGED <<log, oldest, req, window>>

\* latest_epoch_state
proof_get_latest_epoch_state ==
    /\ pc = "proof_epoch_state"
    /\ reads' = Append(reads, "epoch_state")
    /\ \/ /\ Finish(Response("Internal", <<>>, loc.ledger_info))
          /\ UNCHANGED loc
       \/ /\ pc' = "proof_state_value"
          /\ loc' = [loc EXCEPT !.latest_epoch_state = get_latest_epoch_state]
          /\ UNCHANGED out
    /\ UNCHANGED <<log, oldest, req, window>>

\* state value and sparse merkle proof
proof_get_state_value_with_proof_by_version ==
    /\ pc = "proof_state_value"
    /\ reads' = Append(reads, "state_value_with_proof")
    /\ \/ /\ Finish(Response("Internal", <<>>, loc.ledger_info))
          /\ UNCHANGED loc
       \/ LET got == get_state_value_with_proof_by_version(loc.state_key, loc.tx_version)
          IN  IF got.state_value = NoBytes
              THEN /\ Finish(internal_with_code(
                          "No state value from get_state_value_with_proof_by_version",
                          loc.ledger_info))
                   /\ UNCHANGED loc
              ELSE /\ pc' = "proof_transaction"
                   /\ loc' = [loc EXCEPT !.state_proof = got.proof,
                                         !.element_hash = Hash(got.state_value)]
                   /\ UNCHANGED out
    /\ UNCHANGED <<log, oldest, req, window>>

\* The payload StateApi::proof bundles.
AccountProofPayload(txn_w_proof) ==
    [state_proof |-> loc.state_proof,
     element_key |-> Hash(loc.state_key),
     element_hash |-> loc.element_hash,
     transaction_proof |-> txn_w_proof.ledger_info_to_transaction_info_proof,
     transaction |-> txn_w_proof.transaction_info,
     transaction_index |-> loc.tx_version,
     ledger_info_v0 |-> loc.latest_li_w_sig,
     validator_verifier |-> loc.latest_epoch_state.verifier]

\* Mutant: the transaction is fetched at the snapshot version.
proof_get_transaction_by_version_at_snapshot ==
    /\ pc = "proof_transaction"
    /\ reads' = Append(reads, "transaction")
    /\ \/ Finish(Response("Internal", <<>>, loc.ledger_info))
       \/ LET txn_w_proof == get_transaction_by_version(loc.ledger_version,
                                                        loc.latest_li_w_sig.version)
          IN  IF req.accept_type = "Bcs"
              THEN Finish(Response("Ok", bcs_to_bytes_payload(AccountProofPayload(txn_w_proof)),
                                   loc.ledger_info))
              ELSE Finish(Response("FormatNotSupported", <<>>, NoLedgerInfo))
    /\ UNCHANGED <<log, oldest, req, loc, window>>

\* the transaction, the payload and the response
proof_get_transaction_by_version ==
    /\ pc = "proof_transaction"
    /\ reads' = Append(reads, "transaction")
    /\ \/ Finish(Response("Internal", <<>>, loc.ledger_info))
       \/ LET txn_w_proof == get_transaction_by_version(loc.tx_version,
                                                        loc.latest_li_w_sig.version)
          IN  IF req.accept_type = "Bcs"
              THEN Finish(Response("Ok", bcs_to_bytes_payload(AccountProofPayload(txn_w_proof)),
                                   loc.ledger_info))
              ELSE Finish(Response("FormatNotSupported", <<>>, NoLedgerInfo))
    /\ UNCHANGED <<log, oldest, req, loc, window>>

(***************************************************************************)
(* get_epoch_change_proof                                                  *)
(***************************************************************************)
\* u64 subtraction without the overflow check (the width is scaled down to
\* what the checker's integers hold).
wrapping_sub(a, b) == (a - b) % (2 ^ 30)

\* The block whose checkpoint ends epoch.
EpochEndingBlock(epoch) ==
    CHOOSE h \in 0..Height : EndsEpoch(log, h) /\ EpochOfBlock(log, h) = epoch

\* DbReader::get_epoch_ending_ledger_infos(start_epoch, end_epoch): the
\* checkpoints that end the epochs of [start_epoch, end_epoch), as far as
\* the ledger has them.
get_epoch_ending_ledger_infos(start_epoch, end_epoch) ==
    LET last == IF end_epoch <= get_latest_epoch_state.epoch
                THEN end_epoch - 1 ELSE get_latest_epoch_state.epoch - 1
        n == IF last >= start_epoch THEN last - start_epoch + 1 ELSE 0
    IN  [ledger_info_with_sigs |->
             [i \in 1..n |-> SignedLedgerInfoAt(log, EpochEndingBlock(start_epoch + i - 1))],
         more |-> FALSE]

Waypoint_new_any(ledger_info) ==
    [version |-> ledger_info.version, value |-> Hash(ledger_info)]

RequestEpochs == {None} \cup (0..(get_latest_epoch_state.epoch + 1))

\* The endpoint and StateApi::epoch_change_proof up to the snapshot.
get_epoch_change_proof ==
    /\ pc = "idle"
    /\ \E accept_type \in AcceptTypes, epoch_number \in RequestEpochs :
        /\ req' = [NoReq EXCEPT !.op = "get_epoch_change_proof",
                                !.accept_type = accept_type,
                                !.epoch_number = epoch_number]
        /\ reads' = Append(reads, "ledger_info")
        /\ window' = [latest |-> Latest, oldest |-> oldest]
        /\ \/ /\ Finish(Response("Internal", <<>>, NoLedgerInfo))
              /\ UNCHANGED loc
           \/ LET sv == state_view(None)
              IN  /\ pc' = IF epoch_number # None THEN "epoch_payload" ELSE "epoch_latest"
                  /\ loc' = [NoLoc EXCEPT !.ledger_info = sv.ledger_info,
                                          !.ledger_version = sv.ledger_version,
                                          !.epoch_number = epoch_number]
                  /\ UNCHANGED out
    /\ UNCHANGED <<log, oldest>>

\* Mutant: the epoch is taken from the snapshot, not from the latest epoch state.
epoch_change_proof_snapshot_epoch ==
    /\ pc = "epoch_latest"
    /\ reads' = Append(reads, "epoch_state")
    /\ \/ /\ Finish(Response("Internal", <<>>, loc.ledger_info))
          /\ UNCHANGED loc
       \/ /\ pc' = "epoch_payload"
          /\ loc' = [loc EXCEPT !.epoch_number = loc.ledger_info.epoch]
          /\ UNCHANGED out
    /\ UNCHANGED <<log, oldest, req, window>>

\* epoch_number absent: the store's latest epoch
epoch_change_proof_latest_epoch ==
    /\ pc = "epoch_latest"
    /\ reads' = Append(reads, "epoch_state")
    /\ \/ /\ Finish(Response("Internal", <<>>, loc.ledger_info))
          /\ UNCHANGED loc
       \/ /\ pc' = "epoch_payload"
          /\ loc' = [loc EXCEPT !.epoch_number = get_latest_epoch_state.epoch]
          /\ UNCHANGED out
    /\ UNCHANGED <<log, oldest, req, window>>

\* Mutant: the last checkpoint is taken out of the proof instead of the first.
get_epoch_change_proof_payload_removes_last ==
    /\ pc = "epoch_payload"
    /\ reads' = Append(reads, "epoch_ending_ledger_infos")
    /\ \/ \* epoch_number - 2 overflows and the build checks overflow
          /\ loc.epoch_number < 2
          /\ Finish(Response("Abort", <<>>, NoLedgerInfo))
       \/ Finish(Response("Internal", <<>>, loc.ledger_info))
       \/ LET epoch_change_proof ==
                  get_epoch_ending_ledger_infos(wrapping_sub(loc.epoch_number, 2),
                                                loc.epoch_number)
              lis == epoch_change_proof.ledger_info_with_sigs
          IN  IF Len(lis) # 2
              THEN Finish(Response("Abort", <<>>, NoLedgerInfo))
              ELSE LET penultimate_li == Head(lis)
                       payload ==
                           [epoch_change_proof |->
                                [epoch_change_proof EXCEPT !.ledger_info_with_sigs = SubSeq(lis, 1, 1)],
                            trusted_state |->
                                [variant |-> "EpochState",
                                 waypoint |-> Waypoint_new_any(penultimate_li),
                                 epoch_state |->
                                     [epoch |-> loc.epoch_number - 1,
                                      verifier |-> penultimate_li.next_epoch_state.verifier]]]
                   IN  IF req.accept_type = "Bcs"
                       THEN Finish(Response("Ok", bcs_to_bytes_payload(payload), loc.ledger_info))
                       ELSE Finish(Response("FormatNotSupported", <<>>, NoLedgerInfo))
    /\ UNCHANGED <<log, oldest, req, loc, window>>

\* Mutant: the trusted state is anchored in the later checkpoint.
get_epoch_change_proof_payload_anchors_later ==
    /\ pc = "epoch_payload"
    /\ reads' = Append(reads, "epoch_ending_ledger_infos")
    /\ \/ \* epoch_number - 2 overflows and the build checks overflow
          /\ loc.epoch_number < 2
          /\ Finish(Response("Abort", <<>>, NoLedgerInfo))
       \/ Finish(Response("Internal", <<>>, loc.ledger_info))
       \/ LET epoch_change_proof ==
                  get_epoch_ending_ledger_infos(wrapping_sub(loc.epoch_number, 2),
                                                loc.epoch_number)
              lis == epoch_change_proof.ledger_info_with_sigs
          IN  IF Len(lis) # 2
              THEN Finish(Response("Abort", <<>>, NoLedgerInfo))
              ELSE LET penultimate_li == lis[2]
                       payload ==
                           [epoch_change_proof |->
                                [epoch_change_proof EXCEPT !.ledger_info_with_sigs = Tail(lis)],
                            trusted_state |->
                                [variant |-> "EpochState",
                                 waypoint |-> Waypoint_new_any(penultimate_li),
                                 epoch_state |->
                                     [epoch |-> loc.epoch_number - 1,
                                      verifier |-> penultimate_li.next_epoch_state.verifier]]]
                   IN  IF req.accept_type = "Bcs"
                       THEN Finish(Response("Ok", bcs_to_bytes_payload(payload), loc.ledger_info))
                       ELSE Finish(Response("FormatNotSupported", <<>>, NoLedgerInfo))
    /\ UNCHANGED <<log, oldest, req, loc, window>>

\* Mutant: the first checkpoint stays in the returned proof.
get_epoch_change_proof_payload_keeps_both ==
    /\ pc = "epoch_payload"
    /\ reads' = Append(reads, "epoch_ending_ledger_infos")
    /\ \/ \* epoch_number - 2 overflows and the build checks overflow
          /\ loc.epoch_number < 2
          /\ Finish(Response("Abort", <<>>, NoLedgerInfo))
       \/ Finish(Response("Internal", <<>>, loc.ledger_info))
       \/ LET epoch_change_proof ==
                  get_epoch_ending_ledger_infos(wrapping_sub(loc.epoch_number, 2),
                                                loc.epoch_number)
              lis == epoch_change_proof.ledger_info_with_sigs
          IN  IF Len(lis) # 2
              THEN Finish(Response("Abort", <<>>, NoLedgerInfo))
              ELSE LET penultimate_li == Head(lis)
                       payload ==
                           [epoch_change_proof |->
                                [epoch_change_proof EXCEPT !.ledger_info_with_sigs = lis],
                            trusted_state |->
                                [variant |-> "EpochState",
                                 waypoint |-> Waypoint_new_any(penultimate_li),
                                 epoch_state |->
                                     [epoch |-> loc.epoch_number - 1,
                                      verifier |-> penultimate_li.next_epoch_state.verifier]]]
                   IN  IF req.accept_type = "Bcs"
                       THEN Finish(Response("Ok", bcs_to_bytes_payload(payload), loc.ledger_info))
                       ELSE Finish(Response("FormatNotSupported", <<>>, NoLedgerInfo))
    /\ UNCHANGED <<log, oldest, req, loc, window>>

\* get_epoch_change_proof_payload and the response that follows it
get_epoch_change_proof_payload ==
    /\ pc = "epoch_payload"
    /\ reads' = Append(reads, "epoch_ending_ledger_infos")
    /\ \/ \* epoch_number - 2 overflows and the build checks overflow
          /\ loc.epoch_number < 2
          /\ Finish(Response("Abort", <<>>, NoLedgerInfo))
       \/ Finish(Response("Internal", <<>>, loc.ledger_info))
       \/ LET epoch_change_proof ==
                  get_epoch_ending_ledger_infos(wrapping_sub(loc.epoch_number, 2),
                                                loc.epoch_number)
              lis == epoch_change_proof.ledger_info_with_sigs
          IN  IF Len(lis) # 2
              THEN Finish(Response("Abort", <<>>, NoLedgerInfo))
              ELSE LET penultimate_li == Head(lis)
                       payload ==
                           [epoch_change_proof |->
                                [epoch_change_proof EXCEPT !.ledger_info_with_sigs = Tail(lis)],
                            trusted_state |->
                                [variant |-> "EpochState",
                                 waypoint |-> Waypoint_new_any(penultimate_li),
                                 epoch_state |->
                                     [epoch |-> loc.epoch_number - 1,
                                      verifier |-> penultimate_li.next_epoch_state.verifier]]]
                   IN  IF req.accept_type = "Bcs"
                       THEN Finish(Response("Ok", bcs_to_bytes_payload(payload), loc.ledger_info))
                       ELSE Finish(Response("FormatNotSupported", <<>>, NoLedgerInfo))
    /\ UNCHANGED <<log, oldest, req, loc, window>>

(***************************************************************************)
(* The test endpoint (basic.rs)                                            *)
(***************************************************************************)
test ==
    /\ pc = "idle"
    /\ \E accept_type \in AcceptTypes :
        req' = [NoReq EXCEPT !.op = "test", !.accept_type = accept_type]
    /\ reads' = Append(reads, "ledger_info")
    /\ window' = [latest |-> Latest, oldest |-> oldest]
    /\ \/ /\ Finish(Response("Internal", <<>>, NoLedgerInfo))
          /\ UNCHANGED loc
       \/ LET sv == state_view(None)
          IN  /\ pc' = "test_li"
              /\ loc' = [NoLoc EXCEPT !.ledger_info = sv.ledger_info,
                                      !.ledger_version = sv.ledger_version]
              /\ UNCHANGED out
    /\ UNCHANGED <<log, oldest>>

\* latest_li_w_sig and the assertion on its version
test_get_latest_ledger_info_with_signatures ==
    /\ pc = "test_li"
    /\ reads' = Append(reads, "signed_ledger_info")
    /\ \/ /\ Finish(Response("Internal", <<>>, loc.ledger_info))
          /\ UNCHANGED loc
       \/ LET latest_li_w_sig == get_latest_ledger_info_with_signatures
          IN  IF latest_li_w_sig.version # loc.ledger_version
              THEN /\ Finish(Response("Abort", <<>>, NoLedgerInfo))
                   /\ loc' = [loc EXCEPT !.latest_li_w_sig = latest_li_w_sig]
              ELSE /\ pc' = "test_first_viable"
                   /\ loc' = [loc EXCEPT !.latest_li_w_sig = latest_li_w_sig]
                   /\ UNCHANGED out
    /\ UNCHANGED <<log, oldest, req, window>>

\* DbReader::get_first_viable_block
test_get_first_viable_block ==
    /\ pc = "test_first_viable"
    /\ reads' = Append(reads, "first_viable_block")
    /\ \/ /\ Finish(Response("Internal", <<>>, loc.ledger_info))
          /\ UNCHANGED loc
       \/ /\ pc' = "test_checkpoint"
          /\ loc' = [loc EXCEPT !.first_viable_version = oldest]
          /\ UNCHANGED out
    /\ UNCHANGED <<log, oldest, req, window>>

\* DbReader::get_latest_state_checkpoint_version
test_get_latest_state_checkpoint_version ==
    /\ pc = "test_checkpoint"
    /\ reads' = Append(reads, "latest_state_checkpoint")
    /\ \/ /\ Finish(Response("Internal", <<>>, loc.ledger_info))
          /\ UNCHANGED loc
       \/ /\ pc' = "test_snapshot"
          /\ loc' = [loc EXCEPT !.latest_state_checkpoint = Latest]
          /\ UNCHANGED out
    /\ UNCHANGED <<log, oldest, req, window>>

\* DbReader::get_state_snapshot_before: the last checkpoint below version
get_state_snapshot_before(version) ==
    IF version = 0 THEN None ELSE LastVersionOf((version - 1) \div 2)

\* the last read and the response, the same payload in both formats
test_get_state_snapshot_before ==
    /\ pc = "test_snapshot"
    /\ reads' = Append(reads, "state_snapshot_before")
    /\ \/ Finish(Response("Internal", <<>>, loc.ledger_info))
       \/ LET snapshot_before == get_state_snapshot_before(loc.ledger_version + 1)
              payload ==
                  [li_version |-> loc.ledger_version,
                   first_viable_version |-> loc.first_viable_version,
                   latest_state_checkpoint |-> loc.latest_state_checkpoint,
                   snapshot_before |-> IF snapshot_before = None THEN 0 ELSE snapshot_before]
          IN  IF req.accept_type = "Json"
              THEN Finish(Response("Ok", payload, loc.ledger_info))
              ELSE Finish(Response("Ok", bcs_to_bytes_payload(payload), loc.ledger_info))
    /\ UNCHANGED <<log, oldest, req, loc, window>>

(***************************************************************************)
(* The health check (basic.rs)                                             *)
(***************************************************************************)
\* duration_secs: Query<Option<u32>>
Durations == {None, 0, 1, 2}
\* SystemTime::now(), in microseconds since UNIX_EPOCH
Nows == {2, 1000002}

Duration_from_micros(micros) == micros
Duration_from_secs(secs) == secs * 1000000

HealthCheckSuccess_new == [message |-> "aptos-node:ok"]

\* BasicApi::healthy: one read of the latest ledger info, then the check
\* of its timestamp against the clock.
healthy ==
    /\ pc = "idle"
    /\ \E accept_type \in AcceptTypes, duration_secs \in Durations, now \in Nows :
        /\ req' = [NoReq EXCEPT !.op = "healthy", !.accept_type = accept_type,
                                !.duration_secs = duration_secs]
        /\ reads' = Append(reads, "ledger_info")
        /\ window' = [latest |-> Latest, oldest |-> oldest]
        /\ \/ /\ Finish(Response("Internal", <<>>, NoLedgerInfo))
              /\ UNCHANGED loc
           \/ LET ledger_info == get_latest_ledger_info
                  timestamp == Duration_from_micros(ledger_info.ledger_timestamp)
                  \* SystemTime::now().sub(Duration::from_secs(duration))
                  expectation == now - Duration_from_secs(duration_secs)
              IN  /\ loc' = [NoLoc EXCEPT !.ledger_info = ledger_info, !.now = now]
                  /\ IF duration_secs # None /\ expectation < 0
                     THEN \* duration_since(UNIX_EPOCH) of a time before the epoch
                          Finish(internal_with_code(
                              "Failed to determine absolute unix time based on given duration",
                              ledger_info))
                     ELSE IF duration_secs # None /\ timestamp < expectation
                     THEN Finish(Response("ServiceUnavailable", <<>>, ledger_info))
                     ELSE IF accept_type = "Json"
                     THEN Finish(Response("Ok", HealthCheckSuccess_new, ledger_info))
                     ELSE Finish(Response("Ok", bcs_to_bytes_payload(HealthCheckSuccess_new),
                                          ledger_info))
    /\ UNCHANGED <<log, oldest>>

Init ==
    /\ log = <<>>
    /\ oldest = 0
    /\ pc = "idle"
    /\ req = NoReq
    /\ loc = NoLoc
    /\ out = NoOut
    /\ reads = <<>>
    /\ window = NoWindow

Next ==
    \/ Commit
    \/ Prune
    \/ Respond
    \/ get_account_resource
    \/ resource
    \/ get_account_module
    \/ module
    \/ get_table_item
    \/ table_item
    \/ get_raw_table_item
    \/ raw_table_item
    \/ get_raw_state_value
    \/ raw_value
    \/ get_account_proof
    \/ proof_get_block_by_height
    \/ proof_get_latest_ledger_info_with_signatures
    \/ proof_get_latest_epoch_state
    \/ proof_get_state_value_with_proof_by_version
    \/ proof_get_transaction_by_version
    \/ get_epoch_change_proof
    \/ epoch_change_proof_latest_epoch
    \/ get_epoch_change_proof_payload
    \/ test
    \/ test_get_latest_ledger_info_with_signatures
    \/ test_get_first_viable_block
    \/ test_get_latest_state_checkpoint_version
    \/ test_get_state_snapshot_before
    \/ healthy

Spec == Init /\ [][Next]_vars

(***************************************************************************)
(* Properties                                                              *)
(***************************************************************************)
ReadOps ==
    {"get_resource", "get_module", "get_table_item", "get_raw_table_item",
     "get_raw_state_value"}
RawOnlyOps ==
    {"get_account_proof", "get_epoch_change_proof", "get_raw_table_item",
     "get_raw_state_value"}

Done == pc = "done"
\* The request reached version resolution ...
Resolving == window # NoWindow
\* ... and the read of the ledger metadata did not fail there.
LedgerInfoRead == Resolving /\ ~(Done /\ reads = <<"ledger_info">> /\ out = Response("Internal", <<>>, NoLedgerInfo))

\* The state key a read request names, from its inputs.
RequestedKey ==
    CASE req.op = "get_resource" -> ResourceKey(req.address, req.name)
      [] req.op = "get_module" -> ModuleKey(req.address, req.name)
      [] req.op = "get_table_item" -> TableItemKey(req.address, <<req.key.key>>)
      [] req.op = "get_raw_table_item" -> TableItemKey(req.address, req.key)
      [] req.op = "get_raw_state_value" ->
             IF Len(req.key) = 2 THEN req.key[2] ELSE [kind |-> "", address |-> "", name |-> ""]

\* bytes is what the last block writing key at or before version wrote,
\* looking only at the first `height` blocks of the ledger.
IsLastWrite(bytes, key, version, height) ==
    \E h \in 1..height :
        /\ log[h] = "write" /\ key \in WrittenKeys /\ 2 * h - 1 <= version
        /\ \A g \in (h + 1)..height : ~(log[g] = "write" /\ 2 * g - 1 <= version)
        /\ bytes = BytesOf(h, key)

HasWrite(key, version, height) ==
    \E h \in 1..height : log[h] = "write" /\ key \in WrittenKeys /\ 2 * h - 1 <= version

\* C1: a read operation asked for a version below the oldest retained
\* version (as of version resolution) never answers NotFound or a value; once
\* the request is at version resolution and the ledger metadata was read, the
\* answer is Gone, whether or not the key has a value at that version.
C1_PrunedVersionIsGone ==
    (Done /\ req.op \in ReadOps /\ req.ledger_version # None) =>
        /\ (~Resolving /\ req.ledger_version < oldest) => out.kind \notin {"NotFound", "Ok"}
        /\ (Resolving /\ req.ledger_version < window.oldest) => out.kind \notin {"NotFound", "Ok"}
        /\ (LedgerInfoRead /\ req.ledger_version < window.oldest) =>
               out.kind = "Gone" /\ reads = <<"ledger_info">>

C1_Witness ==
    /\ Done /\ req.op \in ReadOps /\ req.ledger_version # None
    /\ LedgerInfoRead /\ req.ledger_version < window.oldest
    /\ HasWrite(RequestedKey, req.ledger_version, Height)
    /\ out.kind = "Gone"

\* C2: version resolution lets a requested version through exactly when
\* oldest <= requested <= latest, both ends included, and then reads at that
\* version; a version outside the window, above latest included, ends the
\* request with Gone.
C2_WindowIsInclusive ==
    (req.op \in ReadOps /\ req.ledger_version # None /\ LedgerInfoRead) =>
        IF window.oldest <= req.ledger_version /\ req.ledger_version <= window.latest
        THEN /\ ~(Done /\ out.kind = "Gone")
             /\ (~(Done /\ reads = <<"ledger_info">>)) => loc.ledger_version = req.ledger_version
        ELSE Done /\ out.kind = "Gone" /\ reads = <<"ledger_info">>

C2_Witness ==
    /\ Done /\ req.op \in ReadOps /\ LedgerInfoRead
    /\ req.ledger_version = window.latest + 1
    /\ window.latest > 0
    /\ out.kind = "Gone"

\* C3: a request without a version reads at the latest committed version of
\* the moment its snapshot was resolved, and the snapshot of the response
\* reports that version.
C3_NoVersionReadsLatest ==
    (req.op \in ReadOps /\ req.ledger_version = None /\ LedgerInfoRead) =>
        /\ ~(Done /\ reads = <<"ledger_info">>) =>
               /\ loc.ledger_version = window.latest
               /\ loc.ledger_info.ledger_version = window.latest
        /\ (Done /\ out.kind \in {"Ok", "NotFound"}) =>
               /\ out.ledger_info.ledger_version = window.latest
               /\ (out.kind = "NotFound") <=>
                      ~HasWrite(RequestedKey, window.latest, Height)

C3_Witness ==
    /\ Done /\ req.op \in ReadOps /\ req.ledger_version = None
    /\ out.kind = "Ok"
    /\ window.latest > 0
    /\ Latest > window.latest
    /\ out.ledger_info.ledger_version = window.latest

\* The read operations whose raw response is the stored bytes themselves.
ExactBytesOps == {"get_resource", "get_module", "get_table_item", "get_raw_table_item"}

\* C4 as stated: every raw-format read returns exactly the bytes of the most
\* recent write at or before the version read.
C4_RawReadReturnsWrittenBytes ==
    (Done /\ req.op \in ReadOps /\ req.accept_type = "Bcs" /\ out.kind = "Ok") =>
        IsLastWrite(out.payload, RequestedKey, loc.ledger_version, Height)

\* C4, amended: a raw-format get_resource, get_module, get_table_item or
\* get_raw_table_item at a retained version returns exactly the bytes of the
\* most recent write at or before that version; get_raw_state_value returns
\* the serialization of that state value, which frames those bytes with
\* their length.
C4_RawReadReturnsWrittenBytes_Amended ==
    (Done /\ req.op \in ReadOps /\ req.accept_type = "Bcs" /\ out.kind = "Ok") =>
        /\ window.oldest <= loc.ledger_version /\ loc.ledger_version <= window.latest
        /\ req.op \in ExactBytesOps =>
               IsLastWrite(out.payload, RequestedKey, loc.ledger_version, Height)
        /\ req.op = "get_raw_state_value" =>
               /\ out.payload[1] = Len(out.payload) - 1
               /\ IsLastWrite(Tail(out.payload), RequestedKey, loc.ledger_version, Height)

\* Ledger at version 4, the resource last written at version 1, no version
\* requested.
C4_Witness ==
    /\ Done /\ req.op = "get_resource" /\ req.accept_type = "Bcs"
    /\ req.ledger_version = None
    /\ log = <<"write", "reconfig">>
    /\ out.kind = "Ok"
    /\ out.payload = <<1, 11>>
    /\ out.ledger_info.ledger_version = 4

\* The stored bytes a successful response carries, whatever its format.
ResponseBytes ==
    IF req.op = "get_raw_state_value" THEN Tail(out.payload)
    ELSE IF req.accept_type = "Json" THEN <<Len(out.payload.fields)>> \o out.payload.fields
    ELSE out.payload

\* C5: blocks committed after the request resolved its snapshot are not
\* visible to it: a successful read returns the value the key had at the
\* resolved version in the ledger as it was at resolution.
C5_LaterWritesInvisible ==
    (Done /\ req.op \in ReadOps /\ out.kind = "Ok") =>
        /\ loc.ledger_version <= window.latest
        /\ IsLastWrite(ResponseBytes, RequestedKey, loc.ledger_version,
                       window.latest \div 2)

C5_Witness ==
    /\ Done /\ req.op \in ReadOps /\ out.kind = "Ok"
    /\ Latest > window.latest
    /\ log[Height] = "write"
    /\ ~IsLastWrite(ResponseBytes, RequestedKey, Latest, Height)

\* C6: in get_account_proof and in the test endpoint the signed ledger
\* checkpoint fetched after the snapshot has the snapshot's version, and the
\* request never aborts because the two differ.
C6_CheckpointMatchesSnapshot ==
    (req.op \in {"get_account_proof", "test"}
     /\ loc.latest_li_w_sig # NoSignedLedgerInfo) =>
        /\ loc.latest_li_w_sig.version = loc.ledger_info.ledger_version
        /\ ~(Done /\ out.kind = "Abort")

\* The payload of a successful proof response.
ProofPayload == out.payload[2]

\* C7: in a successful get_account_proof response the state proof, the
\* transaction and transaction_index are of one version: the last version
\* of the requested block, or the snapshot's version when no block height
\* was given.
C7_ProofVersionsAgree ==
    (Done /\ req.op = "get_account_proof" /\ out.kind = "Ok") =>
        LET tx_version == IF req.block_height # None THEN 2 * req.block_height
                          ELSE out.ledger_info.ledger_version
        IN  /\ ProofPayload.state_proof.version = tx_version
            /\ ProofPayload.transaction.version = tx_version
            /\ ProofPayload.transaction_proof.version = tx_version
            /\ ProofPayload.transaction_index = tx_version

C7_Witness ==
    /\ Done /\ req.op = "get_account_proof" /\ out.kind = "Ok"
    /\ req.block_height # None
    /\ 2 * req.block_height < out.ledger_info.ledger_version
    /\ ProofPayload.transaction_index = 2 * req.block_height

\* C8: in a successful get_account_proof response the bundled validator
\* set is the one of the epoch of the bundled signed checkpoint.
C8_VerifierOfCheckpointEpoch ==
    (Done /\ req.op = "get_account_proof" /\ out.kind = "Ok") =>
        /\ ProofPayload.validator_verifier = <<"validators", ProofPayload.ledger_info_v0.epoch>>
        /\ ProofPayload.validator_verifier = ProofPayload.ledger_info_v0.signers

\* C9: a decoded-format request to a raw-only endpoint yields
\* FormatNotSupported whatever the store holds or does.
C9_JsonOnRawOnlyIsFormatNotSupported ==
    (Done /\ req.op \in RawOnlyOps /\ req.accept_type = "Json") =>
        out.kind = "FormatNotSupported"

\* C10: get_raw_table_item and get_raw_state_value asked for the decoded
\* format answer FormatNotSupported before the snapshot is resolved and
\* before any read of the store.
C10_RawItemJsonRejectedFirst ==
    (req.op \in {"get_raw_table_item", "get_raw_state_value"}
     /\ req.accept_type = "Json") =>
        /\ Done
        /\ out.kind = "FormatNotSupported"
        /\ reads = <<>>
        /\ ~Resolving

C10_Witness ==
    /\ Done /\ req.op = "get_raw_table_item" /\ req.accept_type = "Json"
    /\ req.ledger_version # None /\ req.ledger_version < oldest
    /\ HasWrite(RequestedKey, Latest, Height)
    /\ out.kind = "FormatNotSupported"

\* The request's read of the epoch-ending checkpoints has been made.
EpochProofRead ==
    /\ Done /\ req.op = "get_epoch_change_proof"
    /\ Len(reads) >= 2 /\ reads[Len(reads)] = "epoch_ending_ledger_infos"

\* The checkpoints the store hands out for the request's epoch.
FetchedCheckpoints ==
    get_epoch_ending_ledger_infos(wrapping_sub(loc.epoch_number, 2),
                                  loc.epoch_number).ledger_info_with_sigs

\* C11: when the store returns a number of epoch-ending checkpoints other
\* than two, get_epoch_change_proof ends with Internal carrying the
\* snapshot, and does not abort.
C11_WrongCheckpointCountIsInternal ==
    (EpochProofRead /\ loc.epoch_number >= 2 /\ Len(FetchedCheckpoints) # 2) =>
        /\ out.kind = "Internal"
        /\ out.ledger_info = loc.ledger_info

\* A successful get_epoch_change_proof response and what it returns.
EpochProofOk == Done /\ req.op = "get_epoch_change_proof" /\ out.kind = "Ok"
EpochProofPayload == out.payload[2]
ReturnedCheckpoints == EpochProofPayload.epoch_change_proof.ledger_info_with_sigs

\* checkpoint is the epoch-ending checkpoint of epoch.
EndsEpochNumber(checkpoint, epoch) ==
    /\ checkpoint.epoch = epoch
    /\ checkpoint.next_epoch_state # NoEpochState
    /\ checkpoint.next_epoch_state.epoch = epoch + 1

\* C12 as stated: a successful get_epoch_change_proof response for epoch e
\* returns both checkpoints fetched for [e-2, e), the one ending e-2 first.
C12_ProofHoldsBothCheckpoints ==
    EpochProofOk =>
        /\ Len(ReturnedCheckpoints) = 2
        /\ EndsEpochNumber(ReturnedCheckpoints[1], loc.epoch_number - 2)
        /\ EndsEpochNumber(ReturnedCheckpoints[2], loc.epoch_number - 1)

\* C12, amended: the returned EpochChangeProof holds exactly one checkpoint,
\* the later of the two fetched (the one ending epoch e-1); the earlier one
\* is taken out of the proof and anchors the trusted state.
C12_ProofHoldsLaterCheckpoint ==
    EpochProofOk =>
        /\ Len(FetchedCheckpoints) = 2
        /\ Len(ReturnedCheckpoints) = 1
        /\ ReturnedCheckpoints[1] = FetchedCheckpoints[2]
        /\ EndsEpochNumber(ReturnedCheckpoints[1], loc.epoch_number - 1)
        /\ EpochProofPayload.trusted_state.waypoint.version = FetchedCheckpoints[1].version

C12_Witness ==
    /\ EpochProofOk
    /\ req.epoch_number = 3
    /\ Len(ReturnedCheckpoints) = 1
    /\ ReturnedCheckpoints[1].epoch = 2

TrustedStateReturned == EpochProofPayload.trusted_state

\* C13: in a successful get_epoch_change_proof response for epoch e the
\* trusted state is the EpochState variant of epoch e-1, its validator set
\* is the next validator set of the earlier fetched checkpoint and its
\* waypoint is made from that earlier checkpoint, not from the later one.
C13_TrustedStateFromEarlierCheckpoint ==
    EpochProofOk =>
        /\ TrustedStateReturned.variant = "EpochState"
        /\ TrustedStateReturned.epoch_state.epoch = loc.epoch_number - 1
        /\ TrustedStateReturned.epoch_state.verifier =
               FetchedCheckpoints[1].next_epoch_state.verifier
        /\ TrustedStateReturned.waypoint.version = FetchedCheckpoints[1].version
        /\ TrustedStateReturned.waypoint.value = <<"hash", FetchedCheckpoints[1]>>
        /\ TrustedStateReturned.waypoint.version < FetchedCheckpoints[2].version
        /\ EndsEpochNumber(FetchedCheckpoints[1], loc.epoch_number - 2)

C13_Witness ==
    /\ EpochProofOk
    /\ req.epoch_number = None
    /\ loc.epoch_number = 3
    /\ TrustedStateReturned.epoch_state.epoch = 2
    /\ TrustedStateReturned.waypoint.version > 0

\* C14: a successful get_epoch_change_proof response is a chain from its
\* anchor: the trusted state's validator set signed the first returned
\* record, and each returned record's next validator set signed the record
\* after it.
C14_ProofChainsFromAnchor ==
    EpochProofOk =>
        /\ Len(ReturnedCheckpoints) >= 1
        /\ TrustedStateReturned.epoch_state.verifier = ReturnedCheckpoints[1].signers
        /\ TrustedStateReturned.epoch_state.epoch = ReturnedCheckpoints[1].epoch
        /\ \A i \in 1..(Len(ReturnedCheckpoints) - 1) :
               ReturnedCheckpoints[i].next_epoch_state.verifier =
                   ReturnedCheckpoints[i + 1].signers

C14_Witness ==
    /\ EpochProofOk
    /\ req.epoch_number = 2
    /\ TrustedStateReturned.epoch_state.verifier = <<"validators", 1>>
    /\ ReturnedCheckpoints[1].signers = <<"validators", 1>>
    /\ log = <<"reconfig">>

\* A read request that got as far as its read of the state value.
StateReadDone ==
    Done /\ req.op \in ReadOps /\ reads = <<"ledger_info", "state_value">>

\* The store failed that read.
StorageReadFailed ==
    /\ out.kind = "Internal"
    /\ out.payload \in {<<"Failed to query DB to check for resource">>,
                        <<"Failed to query DB to check for module">>,
                        <<"Failed when trying to retrieve table item from the DB">>,
                        <<"Failed fetching state value">>}

\* What a NotFound answer of each read operation names.
NotFoundOf(op) ==
    CASE op = "get_resource" ->
             [resource |-> "Resource", error_code |-> "ResourceNotFound",
              identifier |-> <<req.address, req.name, loc.ledger_version>>]
      [] op = "get_module" ->
             [resource |-> "Module", error_code |-> "ModuleNotFound",
              identifier |-> <<req.address, req.name, loc.ledger_version>>]
      [] op = "get_table_item" ->
             [resource |-> "Table Item", error_code |-> "TableItemNotFound",
              identifier |-> <<req.address, req.key.key, loc.ledger_version>>]
      [] op = "get_raw_table_item" ->
             [resource |-> "Table Item", error_code |-> "TableItemNotFound",
              identifier |-> <<req.address, req.key, loc.ledger_version>>]
      [] op = "get_raw_state_value" ->
             [resource |-> "Raw State Value", error_code |-> "StateValueNotFound",
              identifier |-> <<req.key, loc.ledger_version>>]

\* C15: a read at a version inside the retained window of a key that has
\* no value at that version ends with the NotFound of the operation's own
\* kind, naming the key and the resolved version and carrying the snapshot.
C15_AbsentKeyIsNotFound ==
    (StateReadDone /\ ~StorageReadFailed
     /\ ~HasWrite(RequestedKey, loc.ledger_version, Height)) =>
        /\ window.oldest <= loc.ledger_version /\ loc.ledger_version <= window.latest
        /\ loc.ledger_version =
               (IF req.ledger_version = None THEN window.latest ELSE req.ledger_version)
        /\ out.kind = "NotFound"
        /\ out.payload = NotFoundOf(req.op)
        /\ out.ledger_info = loc.ledger_info
        /\ out.ledger_info.ledger_version = window.latest

\* The key is written at version 1 and asked for at version 0.
C15_Witness ==
    /\ StateReadDone
    /\ req.op = "get_table_item" /\ req.ledger_version = 0
    /\ HasWrite(RequestedKey, Latest, Height)
    /\ out.kind = "NotFound"
    /\ out.payload.error_code = "TableItemNotFound"
    /\ out.ledger_info.ledger_version > 0

DecodedOps == {"get_resource", "get_module", "get_table_item"}

\* The bytes last written to key at or before version.
LastWritten(key, version) ==
    CHOOSE bytes \in {BytesOf(h, key) : h \in 1..Height} :
        IsLastWrite(bytes, key, version, Height)

\* The decoder accepts the bytes for the type the request names.
Decodes(bytes) ==
    /\ Len(bytes) >= 1 /\ bytes[1] = Len(bytes) - 1
    /\ req.op = "get_table_item" => req.key.value_type = "u64"

DecodeFailures ==
    {<<"Failed to deserialize resource data retrieved from DB">>,
     <<"Failed to parse move module ABI from bytes retrieved from storage">>,
     <<"Failed to deserialize table item retrieved from DB">>}

\* C16: when the bytes of the key were read and decoding them fails, a
\* decoded-format get_resource, get_module or get_table_item ends with
\* Internal, not with NotFound, BadInput or a value.
C16_DecodeFailureIsInternal ==
    (StateReadDone /\ req.op \in DecodedOps /\ req.accept_type = "Json"
     /\ ~StorageReadFailed
     /\ HasWrite(RequestedKey, loc.ledger_version, Height)
     /\ ~Decodes(LastWritten(RequestedKey, loc.ledger_version))) =>
        /\ out.kind = "Internal"
        /\ out.payload \in DecodeFailures
        /\ out.ledger_info = loc.ledger_info

\* The resource's last write at or before the version read is malformed.
C16_Witness ==
    /\ StateReadDone /\ req.op = "get_resource" /\ req.accept_type = "Json"
    /\ HasWrite(RequestedKey, loc.ledger_version, Height)
    /\ LastWritten(RequestedKey, loc.ledger_version) = <<2, 21>>
    /\ out = internal_with_code("Failed to deserialize resource data retrieved from DB",
                                loc.ledger_info)

\* The type a decoded response is decoded as.
DecodedType ==
    CASE req.op = "get_resource" -> req.name
      [] req.op = "get_module" -> "module"
      [] req.op = "get_table_item" -> req.key.value_type

\* C17: for a key and a resolved version the decoded and the raw response
\* of get_resource, get_module and get_table_item come from the same stored
\* bytes, the last write at or before the version: the raw response is
\* those bytes, the decoded one is their decoding, from which the bytes can
\* be told again, and either carries the snapshot of the resolution.
C17_DecodedIsDecodeOfRaw ==
    (StateReadDone /\ req.op \in DecodedOps /\ out.kind = "Ok") =>
        /\ HasWrite(RequestedKey, loc.ledger_version, Height)
        /\ LET raw_bytes == LastWritten(RequestedKey, loc.ledger_version)
           IN  /\ req.accept_type = "Bcs" => out.payload = raw_bytes
               /\ req.accept_type = "Json" =>
                      /\ out.payload = Decode(DecodedType, raw_bytes)
                      /\ <<Len(out.payload.fields)>> \o out.payload.fields = raw_bytes
        /\ out.ledger_info.ledger_version = window.latest
        /\ out.ledger_info.oldest_ledger_version = window.oldest
        /\ out.ledger_info.block_height = window.latest \div 2

\* A decoded response to a read at version 1 of a ledger that has moved on.
C17_Witness ==
    /\ StateReadDone /\ req.op = "get_module" /\ req.accept_type = "Json"
    /\ out.kind = "Ok"
    /\ req.ledger_version = 1
    /\ Height >= 2 /\ log[2] = "write"
    /\ out.payload = [type |-> "module", fields |-> <<12>>]

\* The typed key of a get_table_item request is not a value of its key
\* type, or cannot be serialized.
KeyConversionFails ==
    \/ req.key.key_type = "u8" /\ req.key.key > 255
    \/ req.key.depth > 128

\* C18: in get_table_item a typed key that cannot be made into a VM value
\* or cannot be serialized gives BadInput, not Internal, and the request
\* makes no table-item read.
C18_KeyConversionFailureIsBadInput ==
    (req.op = "get_table_item" /\ KeyConversionFails) =>
        /\ pc = "done"
        /\ "state_value" \notin {reads[i] : i \in 1..Len(reads)}
        /\ (LedgerInfoRead /\ out.kind # "Gone") =>
               /\ out.kind = "BadInput"
               /\ reads = <<"ledger_info">>
               /\ out.ledger_info.ledger_version = window.latest

C18_Witness ==
    /\ Done /\ req.op = "get_table_item"
    /\ req.key.key = 300 /\ req.address = "0xA"
    /\ Latest > 0 /\ log[1] = "write"
    /\ out.kind = "BadInput"
    /\ reads = <<"ledger_info">>

\* The ledger snapshot as it was when the request resolved its version.
ResolvedSnapshot ==
    [epoch |-> Cardinality({g \in 0..((window.latest \div 2) - 1) :
                               g = 0 \/ log[g] = "reconfig"}),
     ledger_version |-> window.latest,
     oldest_ledger_version |-> window.oldest,
     block_height |-> window.latest \div 2,
     oldest_block_height |-> (window.oldest + 1) \div 2,
     ledger_timestamp |-> window.latest \div 2]

\* C19: every success, NotFound and Gone response of every operation
\* carries the snapshot (epoch, version, timestamp, retention window)
\* resolved at the start of the request, with or without a requested
\* version, and the state read was made at a version of that snapshot.
C19_ResponseCarriesResolvedSnapshot ==
    (Done /\ out.kind \in {"Ok", "NotFound", "Gone"}) =>
        /\ Resolving
        /\ out.ledger_info = ResolvedSnapshot
        /\ (req.op \in ReadOps /\ out.kind # "Gone") =>
               /\ out.ledger_info.oldest_ledger_version <= loc.ledger_version
               /\ loc.ledger_version <= out.ledger_info.ledger_version
        /\ (req.op = "get_account_proof" /\ out.kind = "Ok") =>
               ProofPayload.state_proof.version <= out.ledger_info.ledger_version

\* No version requested, and the ledger has moved on and was pruned
\* between the resolution and the response.
C19_Witness ==
    /\ Done /\ req.op = "get_raw_table_item" /\ req.ledger_version = None
    /\ out.kind = "Ok"
    /\ window.latest > 0
    /\ Latest > window.latest /\ oldest > window.oldest
    /\ out.ledger_info.ledger_version = window.latest
    /\ out.ledger_info.oldest_ledger_version = window.oldest

\* A get_account_proof request whose last step was the read of the state
\* value with its proof, and the store answered that read.
ProofStateValueRead ==
    /\ Done /\ req.op = "get_account_proof"
    /\ reads[Len(reads)] = "state_value_with_proof"
    /\ out # Response("Internal", <<>>, loc.ledger_info)

\* C20: a raw-format get_account_proof for an address without an account
\* resource at the proof version ends with NotFound, not with Internal.
C20_AbsentAccountProofIsNotFound ==
    (ProofStateValueRead /\ req.accept_type = "Bcs"
     /\ ~HasWrite(AccountKey(req.address), loc.tx_version, Height)) =>
        out.kind = "NotFound"

\* C21: a get_raw_state_value request whose key bytes do not deserialize
\* to a state key is answered with BadInput, not Internal or NotFound.
C21_MalformedRawKeyIsBadInput ==
    (Done /\ req.op = "get_raw_state_value" /\ req.key = <<"garbage">>
     /\ LedgerInfoRead /\ out.kind # "Gone") =>
        out.kind = "BadInput"

\* The storage reads a request makes, in order, when none of them fails.
ReadPlan ==
    CASE req.op \in ReadOps -> <<"ledger_info", "state_value">>
      [] req.op = "get_account_proof" ->
             <<"ledger_info">>
             \o (IF req.block_height # None THEN <<"block">> ELSE <<>>)
             \o <<"signed_ledger_info", "epoch_state", "state_value_with_proof",
                  "transaction">>
      [] req.op = "get_epoch_change_proof" ->
             <<"ledger_info">>
             \o (IF req.epoch_number = None THEN <<"epoch_state">> ELSE <<>>)
             \o <<"epoch_ending_ledger_infos">>
      [] req.op = "test" ->
             <<"ledger_info", "signed_ledger_info", "first_viable_block",
               "latest_state_checkpoint", "state_snapshot_before">>
      [] req.op = "healthy" -> <<"ledger_info">>
      [] OTHER -> <<>>

\* The store failed the last read the request made.
LastReadFailed ==
    /\ Done /\ Len(reads) >= 1
    /\ \/ out = Response("Internal", <<>>, NoLedgerInfo)
       \/ out = Response("Internal", <<>>, loc.ledger_info)
       \/ StorageReadFailed

\* C22: every storage read of a request is attempted at most once and in
\* the order of the handler: the reads made so far are a prefix of the
\* handler's reads, so no read is repeated, and a request whose read the
\* store failed has ended with Internal with that read as its last.
C22_ReadsAtMostOnce ==
    /\ Len(reads) <= Len(ReadPlan)
    /\ \A i \in 1..Len(reads) : reads[i] = ReadPlan[i]
    /\ \A i, j \in 1..Len(reads) : reads[i] = reads[j] => i = j
    /\ LastReadFailed => out.kind = "Internal"
    /\ pc = "idle" => reads = <<>>

\* The second of six reads of a proof request failed: no read follows it.
C22_Witness ==
    /\ LastReadFailed
    /\ req.op = "get_account_proof" /\ req.block_height # None
    /\ reads = <<"ledger_info", "block", "signed_ledger_info">>
    /\ out = Response("Internal", <<>>, loc.ledger_info)

\* A step taken for a request, as opposed to a step of the ledger.
RequestStep == pc' # pc \/ req' # req \/ reads' # reads

\* C23: no step of any request changes the ledger store (its blocks and
\* versions with their values and epochs, and its retention window), and
\* between two requests nothing of a request is kept: the store is all
\* that two requests share.
C23_StoreIsReadOnly ==
    /\ [][RequestStep => (log' = log /\ oldest' = oldest)]_vars
    /\ [](pc = "idle" =>
             /\ req = NoReq /\ loc = NoLoc /\ out = NoOut
             /\ reads = <<>> /\ window = NoWindow)

\* A request served from a ledger that has blocks and a pruned prefix.
C23_Witness ==
    /\ Done /\ req.op = "get_account_proof" /\ out.kind = "Ok"
    /\ Height = 2 /\ oldest = 1
    /\ Len(reads) = 5

\* A health check whose read of the latest ledger info succeeded.
HealthChecked ==
    /\ Done /\ req.op = "healthy"
    /\ out # Response("Internal", <<>>, NoLedgerInfo)

\* latest_ledger_timestamp >= current_time - duration_secs, in microseconds
FreshEnough ==
    ResolvedSnapshot.ledger_timestamp >= loc.now - req.duration_secs * 1000000

\* C24: the health check succeeds when no threshold is given and the
\* latest ledger info can be read; with a threshold duration_secs it
\* succeeds exactly when latest_ledger_timestamp >= current_time -
\* duration_secs and ends with ServiceUnavailable otherwise.
C24_HealthyIffFreshEnough ==
    HealthChecked =>
        IF req.duration_secs = None \/ FreshEnough
        THEN out.kind = "Ok"
        ELSE out.kind = "ServiceUnavailable"

\* The store's latest epoch when the ledger had height blocks: the epoch
\* opened by genesis, and one more for every reconfiguration since.
LatestEpochAt(height) ==
    1 + Cardinality({h \in 1..height : log[h] = "reconfig"})

\* The checkpoint that ends epoch.
CheckpointEnding(epoch) == SignedLedgerInfoAt(log, EpochEndingBlock(epoch))

\* The payload of a successful request for the explicit epoch number e.
ExplicitEpochPayload(e) ==
    <<"bcs",
      [epoch_change_proof |->
           [ledger_info_with_sigs |-> <<CheckpointEnding(e - 1)>>, more |-> FALSE],
       trusted_state |->
           [variant |-> "EpochState",
            waypoint |-> [version |-> CheckpointEnding(e - 2).version,
                          value |-> <<"hash", CheckpointEnding(e - 2)>>],
            epoch_state |-> [epoch |-> e - 1, verifier |-> <<"validators", e - 1>>]]]>>

\* C25: a get_epoch_change_proof request without an epoch number works on
\* the store's latest epoch of the moment it reads it and answers what a
\* request with that explicit epoch number answers; when the read of the
\* latest epoch fails the request ends with Internal.
C25_AbsentEpochIsLatestEpoch ==
    (req.op = "get_epoch_change_proof") =>
        /\ (req.epoch_number # None /\ Resolving /\ pc # "done") =>
               loc.epoch_number = req.epoch_number
        /\ (req.epoch_number = None /\ Len(reads) >= 2
            /\ ~(Done /\ Len(reads) = 2)) =>
               /\ loc.epoch_number >= LatestEpochAt(window.latest \div 2)
               /\ loc.epoch_number <= LatestEpochAt(Height)
               /\ Latest = window.latest => loc.epoch_number = LatestEpochAt(Height)
        /\ (req.epoch_number = None /\ Done /\ reads = <<"ledger_info", "epoch_state">>) =>
               /\ out.kind = "Internal"
               /\ out.ledger_info = loc.ledger_info
        /\ EpochProofOk => out.payload = ExplicitEpochPayload(loc.epoch_number)

\* The latest epoch was read as 2; the ledger has since gone on to epoch 3.
C25_Witness ==
    /\ EpochProofOk /\ req.epoch_number = None
    /\ loc.epoch_number = 2
    /\ log = <<"reconfig", "write", "reconfig">>
    /\ out.payload = ExplicitEpochPayload(2)

\* C26: a get_epoch_change_proof request that works on epoch number 0 or 1,
\* requested or read as the latest epoch, and reaches the read of the
\* epoch-ending checkpoints ends with a success or a classified failure,
\* never with an abort of the request.
C26_SmallEpochIsClassified ==
    (EpochProofRead /\ loc.epoch_number \in {0, 1}) =>
        out.kind \in {"Ok", "Internal", "FormatNotSupported", "NotFound", "BadInput", "Gone"}

\* The request's resource type, module name or table-item request does not
\* pass the verification made at the head of its endpoint.
InputVerificationFails ==
    \/ req.op = "get_resource" /\ ~VerifyResourceType(req.name)
    \/ req.op = "get_module" /\ ~verify_module_identifier(req.name)
    \/ req.op = "get_table_item" /\ ~VerifyTableItemRequest(req.key)

\* C27: in get_resource, get_module and get_table_item a request that fails
\* input verification is finished at once with BadInput: the snapshot was
\* not resolved, no storage read was made, and the response carries no
\* ledger snapshot.
C27_VerificationFailureIsEarlyBadInput ==
    InputVerificationFails =>
        /\ Done
        /\ out.kind = "BadInput"
        /\ out.ledger_info = NoLedgerInfo
        /\ out.payload = <<>>
        /\ reads = <<>>
        /\ loc = NoLoc
        /\ window = NoWindow

\* A module name that is no identifier, asked at a version that is pruned:
\* the answer is BadInput and not Gone.
C27_Witness ==
    /\ InputVerificationFails /\ req.op = "get_module"
    /\ Done /\ out.kind = "BadInput" /\ reads = <<>>
    /\ req.ledger_version # None /\ req.ledger_version < oldest
====
